---- MODULE Spec2Model ----
(***************************************************************************)
(* A model of the tokimun compiler front end: the lexer (Lexer, Tokenize,  *)
(* scanToken and its helpers, ConvertNumber) and the command-line driver   *)
(* (Compile, compileFile, handleCompile, handleRun).                       *)
(*                                                                         *)
(* Source text is a sequence of one-character strings.  Go indexes the     *)
(* source from 0; the fields start and current keep Go's 0-based values    *)
(* and byte i of the source is source[i+1].                                *)
(***************************************************************************)
EXTENDS Integers, Sequences, FiniteSets, TLC

VARIABLES
    source,        \* Lexer.source
    tokens,        \* Lexer.tokens
    start,         \* Lexer.start
    current,       \* Lexer.current
    line,          \* Lexer.line
    column,        \* Lexer.column
    startColumn,   \* Lexer.startColumn
    steps,         \* Tokenize: the turns of its loop taken so far
    spans,         \* for each token of l.tokens, in order: l.start and
                   \* l.current when addTokenValue appended it
    ret,           \* what Tokenize returned: [tokens, err]
    pc,            \* position of the process
    mode,          \* "lex": Tokenize alone; "convert"; "compile"; "run"
    arg,           \* the argument of a call of ConvertNumber from outside
    conv,          \* ConvertNumber's result for each number token
    compiler,      \* Compile: NewCompiler was called
    out,           \* what Compile returned: [text, err]
    nfiles,        \* handleCompile: len(expandedFiles); handleRun: len(files)
    opts,          \* CompileOptions
    idx,           \* handleCompile: index of the file of the current turn
    attempted,     \* indexes of the files compileFile was called on
    written,       \* indexes of the files whose output file WriteFile touched
    printed,       \* indexes of the files compileFile printed for
    cfErr,         \* what compileFile returned ("" for nil)
    exit,          \* exit status of the process, -1 while it runs
    tmp,           \* handleRun: the temporary file
    interp         \* handleRun: the interpreter that ran and its exit status

lexvars ==
    <<source, tokens, start, current, line, column, startColumn, steps,
      spans>>

----------------------------------------------------------------------------
(* Bytes and byte classes *)

NUL == "NUL"    \* the byte 0 that peek and peekNext return at end of input

BQ == "BQ"      \* the back-quote byte (0x60), which a TLA+ string cannot hold

Digits == {"0", "1", "2", "3", "4", "5", "6", "7", "8", "9"}

Letters ==
    {"a", "b", "c", "d", "e", "f", "g", "h", "i", "j", "k", "l", "m",
     "n", "o", "p", "q", "r", "s", "t", "u", "v", "w", "x", "y", "z",
     "A", "B", "C", "D", "E", "F", "G", "H", "I", "J", "K", "L", "M",
     "N", "O", "P", "Q", "R", "S", "T", "U", "V", "W", "X", "Y", "Z"}

isDigit(c) == c \in Digits

isHexDigit(c) ==
    isDigit(c) \/ c \in {"a", "b", "c", "d", "e", "f"}
               \/ c \in {"A", "B", "C", "D", "E", "F"}

isAlpha(c) == c \in Letters \/ c = "_"

isAlphaNumeric(c) == isAlpha(c) \/ isDigit(c)

keywords ==
    (<<"a","n","d">> :> "TOKEN_AND") @@
    (<<"b","r","e","a","k">> :> "TOKEN_BREAK") @@
    (<<"c","o","n","t","i","n","u","e">> :> "TOKEN_CONTINUE") @@
    (<<"c","a","s","e">> :> "TOKEN_CASE") @@
    (<<"d","e","f","a","u","l","t">> :> "TOKEN_DEFAULT") @@
    (<<"d","o">> :> "TOKEN_DO") @@
    (<<"e","l","s","e">> :> "TOKEN_ELSE") @@
    (<<"e","l","s","e","i","f">> :> "TOKEN_ELSEIF") @@
    (<<"e","n","d">> :> "TOKEN_END") @@
    (<<"f","a","l","s","e">> :> "TOKEN_FALSE") @@
    (<<"f","o","r">> :> "TOKEN_FOR") @@
    (<<"f","u","n","c","t","i","o","n">> :> "TOKEN_FUNCTION") @@
    (<<"g","l","o","b","a","l">> :> "TOKEN_GLOBAL") @@
    (<<"g","o","t","o">> :> "TOKEN_GOTO") @@
    (<<"i","f">> :> "TOKEN_IF") @@
    (<<"i","n">> :> "TOKEN_IN") @@
    (<<"l","o","c","a","l">> :> "TOKEN_LOCAL") @@
    (<<"n","i","l">> :> "TOKEN_NIL") @@
    (<<"n","o","t">> :> "TOKEN_NOT") @@
    (<<"o","r">> :> "TOKEN_OR") @@
    (<<"r","e","p","e","a","t">> :> "TOKEN_REPEAT") @@
    (<<"r","e","t","u","r","n">> :> "TOKEN_RETURN") @@
    (<<"s","w","i","t","c","h">> :> "TOKEN_SWITCH") @@
    (<<"t","h","e","n">> :> "TOKEN_THEN") @@
    (<<"t","r","u","e">> :> "TOKEN_TRUE") @@
    (<<"u","n","t","i","l">> :> "TOKEN_UNTIL") @@
    (<<"w","h","i","l","e">> :> "TOKEN_WHILE")

----------------------------------------------------------------------------
(* The lexer as a record l: the fields of Lexer, the error a helper       *)
(* returned (err.msg = "" while there is none) and whether an index       *)
(* expression went out of range (a Go run-time panic).                    *)

NoErr == [msg |-> "", line |-> 0, ch |-> "", startLine |-> 0]

Errorf(msg, ln, ch, startLine) ==
    [msg |-> msg, line |-> ln, ch |-> ch, startLine |-> startLine]

NewLexer(src) ==
    [source |-> src, tokens |-> <<>>, start |-> 0, current |-> 0,
     line |-> 1, column |-> 1, startColumn |-> 0,
     err |-> NoErr, panic |-> FALSE]

isAtEnd(l) == l.current >= Len(l.source)

peek(l) == IF isAtEnd(l) THEN NUL ELSE l.source[l.current + 1]

peekNext(l) ==
    IF l.current + 1 >= Len(l.source) THEN NUL ELSE l.source[l.current + 2]

\* advance reads source[current] before it moves: at end of input the read
\* is out of range and the run-time panics.  Nothing runs after a panic.
advance(l) ==
    IF l.panic THEN l
    ELSE IF l.current >= Len(l.source) THEN [l EXCEPT !.panic = TRUE]
    ELSE [l EXCEPT !.current = @ + 1, !.column = @ + 1]

\* match: matches(l, e) is its result, matched(l, e) the lexer after it
matches(l, expected) == ~isAtEnd(l) /\ l.source[l.current + 1] = expected

matched(l, expected) ==
    IF matches(l, expected)
    THEN [l EXCEPT !.current = @ + 1, !.column = @ + 1]
    ELSE l

Slice(s, from, to) == SubSeq(s, from + 1, to)    \* Go's s[from:to]

addTokenValue(l, tokenType, value) ==
    IF l.panic THEN l
    ELSE [l EXCEPT !.tokens = Append(@, [Type |-> tokenType, Value |-> value,
                                         Line |-> l.line,
                                         Column |-> l.startColumn])]

addToken(l, tokenType) ==
    addTokenValue(l, tokenType, Slice(l.source, l.start, l.current))

----------------------------------------------------------------------------
(* Loops shared by the scanners *)

\* for l.peek() != '\n' && !l.isAtEnd() { l.advance() }
RECURSIVE skipLine(_)
skipLine(l) ==
    IF peek(l) # "\n" /\ ~isAtEnd(l) THEN skipLine(advance(l)) ELSE l

\* for l.peek() == '=' { l.advance(); eqCount++ }: the lexer and the count
RECURSIVE countEquals(_, _)
countEquals(l, eqCount) ==
    IF peek(l) = "="
    THEN countEquals(advance(l), eqCount + 1)
    ELSE [l |-> l, n |-> eqCount]

\* for l.peek() == '=' && matchEq < eqCount { l.advance(); matchEq++ }
RECURSIVE matchEquals(_, _, _)
matchEquals(l, matchEq, eqCount) ==
    IF peek(l) = "=" /\ matchEq < eqCount
    THEN matchEquals(advance(l), matchEq + 1, eqCount)
    ELSE [l |-> l, n |-> matchEq]

\* if l.peek() == '\n' { l.line++; l.column = 0 }
countNewline(l) ==
    IF peek(l) = "\n" THEN [l EXCEPT !.line = @ + 1, !.column = 0] ELSE l

----------------------------------------------------------------------------
(* Lexer.comment: the two dashes are consumed *)

\* the loop of comment with a close of any level ending the comment
RECURSIVE commentBodyAnyLevel(_, _)
commentBodyAnyLevel(l, eqCount) ==
    IF isAtEnd(l) THEN l
    ELSE LET l1 == countNewline(l) IN
         IF peek(l1) = "]"
         THEN LET m == matchEquals(advance(l1), 0, eqCount) IN
              IF peek(m.l) = "]"
              THEN advance(m.l)
              ELSE commentBodyAnyLevel(m.l, eqCount)
         ELSE commentBodyAnyLevel(advance(l1), eqCount)

\* the loop "Find matching ]=*]" of comment; it ends at the close or at
\* end of input, and returns no error in either case
RECURSIVE commentBody(_, _)
commentBody(l, eqCount) ==
    IF isAtEnd(l) THEN l
    ELSE LET l1 == countNewline(l) IN
         IF peek(l1) = "]"
         THEN LET m == matchEquals(advance(l1), 0, eqCount) IN
              IF m.n = eqCount /\ peek(m.l) = "]"
              THEN advance(m.l)
              ELSE commentBody(m.l, eqCount)
         ELSE commentBody(advance(l1), eqCount)

\* comment without the skip to the end of the line in its fallback
commentNoFallback(l) ==
    IF peek(l) = "[" /\ (peekNext(l) = "[" \/ peekNext(l) = "=")
    THEN LET e == countEquals(advance(l), 0) IN
         IF peek(e.l) # "["
         THEN e.l
         ELSE commentBody(advance(e.l), e.n)
    ELSE skipLine(l)

comment(l) ==
    IF peek(l) = "[" /\ (peekNext(l) = "[" \/ peekNext(l) = "=")
    THEN LET e == countEquals(advance(l), 0) IN
         IF peek(e.l) # "["
         THEN skipLine(e.l)
         ELSE commentBody(advance(e.l), e.n)
    ELSE skipLine(l)

----------------------------------------------------------------------------
(* Lexer.string: the opening quote is consumed *)

\* string without its newline test: the body runs across lines
RECURSIVE stringBodyAcrossLines(_, _)
stringBodyAcrossLines(l, quote) ==
    IF l.panic THEN l
    ELSE IF peek(l) # quote /\ ~isAtEnd(l)
    THEN LET l1 == IF peek(l) = "\\" THEN advance(l) ELSE l
         IN stringBodyAcrossLines(advance(l1), quote)
    ELSE l

\* the for loop of string; it stops with err set at a newline it peeks
RECURSIVE stringBody(_, _)
stringBody(l, quote) ==
    IF l.panic THEN l
    ELSE IF peek(l) # quote /\ ~isAtEnd(l)
    THEN IF peek(l) = "\n"
         THEN [l EXCEPT !.err = Errorf("unterminated string", l.line, "", 0)]
         ELSE LET l1 == IF peek(l) = "\\" THEN advance(l) ELSE l
              IN stringBody(advance(l1), quote)
    ELSE l

string(l, quote) ==
    LET l1 == stringBody(l, quote) IN
    IF l1.panic \/ l1.err.msg # "" THEN l1
    ELSE IF isAtEnd(l1)
    THEN [l1 EXCEPT !.err = Errorf("unterminated string", l1.line, "", 0)]
    ELSE LET l2 == advance(l1) IN
         addTokenValue(l2, "TOKEN_STRING", Slice(l2.source, l2.start, l2.current))

----------------------------------------------------------------------------
(* Lexer.multilineString: the first '[' is consumed *)

\* the loop "Find matching ]=*]" of multilineString; res is "token" when it
\* returned through addTokenValue and "eof" when the loop ran out of input
RECURSIVE multilineBody(_, _)
multilineBody(l, eqCount) ==
    IF isAtEnd(l) THEN [l |-> l, res |-> "eof"]
    ELSE LET l1 == countNewline(l) IN
         IF peek(l1) = "]"
         THEN LET markPos == l1.current
                  m == matchEquals(advance(l1), 0, eqCount)
              IN IF m.n = eqCount /\ peek(m.l) = "]"
                 THEN LET l2 == advance(m.l) IN
                      [l |-> addTokenValue(l2, "TOKEN_STRING",
                                 Slice(l2.source, l2.start, l2.current)),
                       res |-> "token"]
                 ELSE multilineBody([m.l EXCEPT !.current = markPos + 1],
                                    eqCount)
         ELSE multilineBody(advance(l1), eqCount)

\* multilineString whose fallback sets the cursor back to the bracket itself
multilineStringRescan(l) ==
    LET e == countEquals(l, 0) IN
    IF peek(e.l) # "["
    THEN addToken([e.l EXCEPT !.current = e.l.start], "TOKEN_LBRACKET")
    ELSE LET l1 == advance(e.l)
             startLine == l1.line
             b == multilineBody(l1, e.n)
         IN IF b.res = "token" THEN b.l
            ELSE [b.l EXCEPT !.err = Errorf("unterminated multiline string",
                                            b.l.line, "", startLine)]

multilineString(l) ==
    LET e == countEquals(l, 0) IN
    IF peek(e.l) # "["
    THEN addToken([e.l EXCEPT !.current = e.l.start + 1], "TOKEN_LBRACKET")
    ELSE LET l1 == advance(e.l)
             startLine == l1.line
             b == multilineBody(l1, e.n)
         IN IF b.res = "token" THEN b.l
            ELSE [b.l EXCEPT !.err = Errorf("unterminated multiline string",
                                            b.l.line, "", startLine)]

----------------------------------------------------------------------------
(* Lexer.templateString: the opening back-quote is consumed *)

\* the loop of an interpolation that counts no opening brace: the first
\* closing brace ends the span
RECURSIVE interpolationToFirstBrace(_, _, _)
interpolationToFirstBrace(l, builder, braceDepth) ==
    IF braceDepth > 0 /\ ~isAtEnd(l)
    THEN LET c == peek(l)
             l1 == advance(l)
             b1 == Append(builder, c)
         IN IF c = "}" THEN interpolationToFirstBrace(l1, b1, braceDepth - 1)
            ELSE IF c = "\n"
            THEN interpolationToFirstBrace(
                     [l1 EXCEPT !.line = @ + 1, !.column = 0], b1, braceDepth)
            ELSE interpolationToFirstBrace(l1, b1, braceDepth)
    ELSE [l |-> l, builder |-> builder]

\* for braceDepth > 0 && !l.isAtEnd(): the lexer and the builder
RECURSIVE interpolation(_, _, _)
interpolation(l, builder, braceDepth) ==
    IF braceDepth > 0 /\ ~isAtEnd(l)
    THEN LET c == peek(l)
             l1 == advance(l)
             b1 == Append(builder, c)
         IN IF c = "{" THEN interpolation(l1, b1, braceDepth + 1)
            ELSE IF c = "}" THEN interpolation(l1, b1, braceDepth - 1)
            ELSE IF c = "\n"
            THEN interpolation([l1 EXCEPT !.line = @ + 1, !.column = 0],
                               b1, braceDepth)
            ELSE interpolation(l1, b1, braceDepth)
    ELSE [l |-> l, builder |-> builder]

\* for l.peek() != BQ && !l.isAtEnd(): the lexer and the builder
RECURSIVE templateBody(_, _)
templateBody(l, builder) ==
    IF peek(l) # BQ /\ ~isAtEnd(l)
    THEN LET l0 == countNewline(l) IN
         IF peek(l0) = "\\"
         THEN LET l1 == advance(l0)
                  b1 == Append(builder, peek(l0))
              IN IF ~isAtEnd(l1)
                 THEN templateBody(advance(l1), Append(b1, peek(l1)))
                 ELSE templateBody(l1, b1)
         ELSE IF peek(l0) = "$" /\ peekNext(l0) = "{"
         THEN LET l1 == advance(l0)
                  l2 == advance(l1)
                  r == interpolation(l2,
                           Append(Append(builder, peek(l0)), peek(l1)), 1)
              IN templateBody(r.l, r.builder)
         ELSE templateBody(advance(l0), Append(builder, peek(l0)))
    ELSE [l |-> l, builder |-> builder]

\* templateString without its end-of-input test
templateStringNoEndTest(l) ==
    LET r == templateBody(l, <<BQ>>) IN
    addTokenValue(advance(r.l), "TOKEN_TEMPLATE_STRING",
                  Append(r.builder, BQ))

templateString(l) ==
    LET r == templateBody(l, <<BQ>>) IN
    IF isAtEnd(r.l)
    THEN [r.l EXCEPT !.err =
              Errorf("unterminated template string", r.l.line, "", 0)]
    ELSE addTokenValue(advance(r.l), "TOKEN_TEMPLATE_STRING",
                       Append(r.builder, BQ))

----------------------------------------------------------------------------
(* Lexer.number and Lexer.identifier: the first byte is consumed *)

RECURSIVE skipWhile(_, _)
skipWhile(l, class) ==
    IF peek(l) \in class THEN skipWhile(advance(l), class) ELSE l

HexDigits == {c \in Digits \cup Letters : isHexDigit(c)}

\* number without its exponent part
numberNoExponent(l) ==
    IF l.source[l.start + 1] = "0" /\ l.current < Len(l.source)
       /\ peek(l) \in {"x", "X", "b", "B", "o", "O"}
    THEN IF peek(l) \in {"x", "X"}
         THEN addToken(skipWhile(advance(l), HexDigits), "TOKEN_NUMBER")
         ELSE IF peek(l) \in {"b", "B"}
         THEN addToken(skipWhile(advance(l), {"0", "1"}), "TOKEN_NUMBER")
         ELSE addToken(skipWhile(advance(l),
                           {"0", "1", "2", "3", "4", "5", "6", "7"}),
                       "TOKEN_NUMBER")
    ELSE LET l1 == skipWhile(l, Digits)
             l2 == IF peek(l1) = "." /\ isDigit(peekNext(l1))
                   THEN skipWhile(advance(l1), Digits)
                   ELSE l1
         IN addToken(l2, "TOKEN_NUMBER")

number(l) ==
    IF l.source[l.start + 1] = "0" /\ l.current < Len(l.source)
       /\ peek(l) \in {"x", "X", "b", "B", "o", "O"}
    THEN IF peek(l) \in {"x", "X"}
         THEN addToken(skipWhile(advance(l), HexDigits), "TOKEN_NUMBER")
         ELSE IF peek(l) \in {"b", "B"}
         THEN addToken(skipWhile(advance(l), {"0", "1"}), "TOKEN_NUMBER")
         ELSE addToken(skipWhile(advance(l),
                           {"0", "1", "2", "3", "4", "5", "6", "7"}),
                       "TOKEN_NUMBER")
    ELSE LET l1 == skipWhile(l, Digits)
             l2 == IF peek(l1) = "." /\ isDigit(peekNext(l1))
                   THEN skipWhile(advance(l1), Digits)
                   ELSE l1
             l3 == IF peek(l2) = "e" \/ peek(l2) = "E"
                   THEN LET a == advance(l2)
                            b == IF peek(a) = "+" \/ peek(a) = "-"
                                 THEN advance(a) ELSE a
                        IN skipWhile(b, Digits)
                   ELSE l2
         IN addToken(l3, "TOKEN_NUMBER")

identifier(l) ==
    LET l1 == skipWhile(l, Letters \cup {"_"} \cup Digits)
        text == Slice(l1.source, l1.start, l1.current)
    IN addToken(l1, IF text \in DOMAIN keywords THEN keywords[text]
                    ELSE "TOKEN_IDENT")

----------------------------------------------------------------------------
(* Lexer.scanToken *)

\* withAssign without its match: the operator alone is the token
withAssignSplit(l, two, one) == addToken(l, one)

\* if l.match('=') { l.addToken(two) } else { l.addToken(one) }
withAssign(l, two, one) ==
    IF matches(l, "=") THEN addToken(matched(l, "="), two)
    ELSE addToken(l, one)

\* an unexpected character recorded as an error token, the scan going on
unexpectedAsToken(l, c) == addToken(l, "TOKEN_ERROR")

unexpected(l, c) ==
    [l EXCEPT !.err = Errorf("unexpected character", l.line, c, 0)]

scanToken(l0) ==
    LET c == peek(l0)
        l == advance(l0)
    IN CASE c = "(" -> addToken(l, "TOKEN_LPAREN")
         [] c = ")" -> addToken(l, "TOKEN_RPAREN")
         [] c = "{" -> addToken(l, "TOKEN_LBRACE")
         [] c = "}" -> addToken(l, "TOKEN_RBRACE")
         [] c = "[" -> IF peek(l) = "[" \/ peek(l) = "="
                       THEN multilineString(l)
                       ELSE addToken(l, "TOKEN_LBRACKET")
         [] c = "]" -> addToken(l, "TOKEN_RBRACKET")
         [] c = ";" -> addToken(l, "TOKEN_SEMICOLON")
         [] c = "," -> addToken(l, "TOKEN_COMMA")
         [] c = "#" -> addToken(l, "TOKEN_HASH")
         [] c = "^" -> addToken(l, "TOKEN_CARET")
         [] c = "+" -> withAssign(l, "TOKEN_PLUS_ASSIGN", "TOKEN_PLUS")
         [] c = "-" -> IF matches(l, "-") THEN comment(matched(l, "-"))
                       ELSE withAssign(l, "TOKEN_MINUS_ASSIGN", "TOKEN_MINUS")
         [] c = "*" -> withAssign(l, "TOKEN_STAR_ASSIGN", "TOKEN_STAR")
         [] c = "/" -> withAssign(l, "TOKEN_SLASH_ASSIGN", "TOKEN_SLASH")
         [] c = "%" -> withAssign(l, "TOKEN_PERCENT_ASSIGN", "TOKEN_PERCENT")
         [] c = "=" -> withAssign(l, "TOKEN_EQ", "TOKEN_ASSIGN")
         [] c = "!" -> IF matches(l, "=")
                       THEN addToken(matched(l, "="), "TOKEN_NEQ")
                       ELSE unexpected(l, "!")
         [] c = "~" -> IF matches(l, "=")
                       THEN addToken(matched(l, "="), "TOKEN_NEQ")
                       ELSE unexpected(l, "~")
         [] c = "<" -> withAssign(l, "TOKEN_LE", "TOKEN_LT")
         [] c = ">" -> withAssign(l, "TOKEN_GE", "TOKEN_GT")
         [] c = ":" -> IF matches(l, ":")
                       THEN addToken(matched(l, ":"), "TOKEN_DOUBLECOLON")
                       ELSE addToken(l, "TOKEN_COLON")
         [] c = "." -> IF matches(l, ".")
                       THEN LET l1 == matched(l, ".") IN
                            IF matches(l1, ".")
                            THEN addToken(matched(l1, "."), "TOKEN_DOTDOTDOT")
                            ELSE IF matches(l1, "=")
                            THEN addToken(matched(l1, "="),
                                          "TOKEN_DOTDOT_ASSIGN")
                            ELSE addToken(l1, "TOKEN_DOTDOT")
                       ELSE IF isDigit(peek(l)) THEN number(l)
                       ELSE addToken(l, "TOKEN_DOT")
         [] c = "?" -> IF matches(l, ".")
                       THEN addToken(matched(l, "."), "TOKEN_QUESTION_DOT")
                       ELSE IF matches(l, "?")
                       THEN addToken(matched(l, "?"), "TOKEN_DOUBLE_QUESTION")
                       ELSE unexpected(l, "?")
         [] c = "\"" \/ c = "'" -> string(l, c)
         [] c = BQ -> templateString(l)
         [] c = "\n" -> [l EXCEPT !.line = @ + 1, !.column = 1]
         [] c = " " \/ c = "\r" \/ c = "\t" -> l
         [] OTHER -> IF isDigit(c) THEN number(l)
                     ELSE IF isAlpha(c) THEN identifier(l)
                     ELSE unexpected(l, c)

----------------------------------------------------------------------------
(* ConvertNumber, with strconv.ParseInt(s, base, 64) and                  *)
(* strconv.FormatInt(n, 10) of the Go library it calls.  A 64-bit value   *)
(* is kept as its sign and the decimal digits of its magnitude, most      *)
(* significant first, so that no width of the model's integers limits     *)
(* it.                                                                    *)

DigitChars == <<"0", "1", "2", "3", "4", "5", "6", "7", "8", "9">>

\* the value of a digit byte
DigitValue(c) == (CHOOSE d \in 1..10 : DigitChars[d] = c) - 1

\* the decimal digits of dec * base + d, for one-digit base and d
RECURSIVE MulAdd(_, _, _, _)
MulAdd(dec, k, base, carry) ==
    IF k = 0 THEN (IF carry > 0 THEN <<carry>> ELSE <<>>)
    ELSE LET v == dec[k] * base + carry
         IN Append(MulAdd(dec, k - 1, base, v \div 10), v % 10)

\* a number without leading zeros, zero being no digits at all
StripZeros(dec) ==
    IF \A k \in 1..Len(dec) : dec[k] = 0 THEN <<>>
    ELSE LET f == CHOOSE k \in 1..Len(dec) :
                      dec[k] # 0 /\ \A j \in 1..k - 1 : dec[j] = 0
         IN SubSeq(dec, f, Len(dec))

\* the magnitude the digit bytes s[k..] denote in the base, from acc (each
\* step's digits are computed before the next step is taken)
RECURSIVE Magnitude(_, _, _, _)
Magnitude(s, k, base, acc) ==
    IF k > Len(s) THEN acc
    ELSE LET next == StripZeros(MulAdd(acc, Len(acc), base,
                                       DigitValue(s[k])))
         IN IF Len(next) = 0 THEN Magnitude(s, k + 1, base, <<>>)
            ELSE Magnitude(s, k + 1, base, next)

\* 1 << 63, the cutoff of ParseInt for 64 bits
Cutoff63 == <<9, 2, 2, 3, 3, 7, 2, 0, 3, 6, 8, 5, 4, 7, 7, 5, 8, 0, 8>>

\* a < b for magnitudes without leading zeros
RECURSIVE LessFrom(_, _, _)
LessFrom(a, b, k) ==
    IF k > Len(a) THEN FALSE
    ELSE IF a[k] # b[k] THEN a[k] < b[k]
    ELSE LessFrom(a, b, k + 1)

Less(a, b) ==
    IF Len(a) # Len(b) THEN Len(a) < Len(b) ELSE LessFrom(a, b, 1)

\* strconv.ParseInt(s, base, 64) for base 2 and 8: a sign is accepted, the
\* digits must be digits of the base, the value must fit 64 bits
ParseInt(s, base) ==
    LET neg == Len(s) > 0 /\ s[1] = "-"
        digits == IF Len(s) > 0 /\ s[1] \in {"+", "-"} THEN Tail(s) ELSE s
        valid == /\ Len(digits) > 0
                 /\ \A k \in 1..Len(digits) :
                       digits[k] \in Digits /\ DigitValue(digits[k]) < base
        mag == Magnitude(digits, 1, base, <<>>)
    IN IF ~valid THEN [err |-> TRUE, neg |-> FALSE, mag |-> <<>>]
       ELSE IF ~neg /\ ~Less(mag, Cutoff63)
       THEN [err |-> TRUE, neg |-> FALSE, mag |-> <<>>]
       ELSE IF neg /\ Less(Cutoff63, mag)
       THEN [err |-> TRUE, neg |-> FALSE, mag |-> <<>>]
       ELSE [err |-> FALSE, neg |-> neg /\ mag # <<>>, mag |-> mag]

\* strconv.FormatInt(n, 10)
FormatInt(n) ==
    LET digits == IF n.mag = <<>> THEN <<"0">>
                  ELSE [k \in 1..Len(n.mag) |-> DigitChars[n.mag[k] + 1]]
    IN IF n.neg THEN <<"-">> \o digits ELSE digits

\* ConvertNumber with the octal case left out
ConvertNumberNoOctal(value) ==
    IF Len(value) >= 2 /\ value[1] = "0" /\ value[2] \in {"b", "B"}
    THEN LET n == ParseInt(Slice(value, 2, Len(value)), 2) IN
         IF n.err
         THEN [text |-> <<>>, err |-> "invalid binary literal",
               lit |-> value]
         ELSE [text |-> FormatInt(n), err |-> "", lit |-> <<>>]
    ELSE [text |-> value, err |-> "", lit |-> <<>>]

\* the result: the text, and the error ("" for nil) with the literal it names
ConvertNumber(value) ==
    IF Len(value) < 2 THEN [text |-> value, err |-> "", lit |-> <<>>]
    ELSE IF value[1] = "0" /\ value[2] \in {"b", "B"}
    THEN LET n == ParseInt(Slice(value, 2, Len(value)), 2) IN
         IF n.err
         THEN [text |-> <<>>, err |-> "invalid binary literal",
               lit |-> value]
         ELSE [text |-> FormatInt(n), err |-> "", lit |-> <<>>]
    ELSE IF value[1] = "0" /\ value[2] \in {"o", "O"}
    THEN LET n == ParseInt(Slice(value, 2, Len(value)), 8) IN
         IF n.err
         THEN [text |-> <<>>, err |-> "invalid octal literal",
               lit |-> value]
         ELSE [text |-> FormatInt(n), err |-> "", lit |-> <<>>]
    ELSE [text |-> value, err |-> "", lit |-> <<>>]

----------------------------------------------------------------------------
(* Lexer.Tokenize, one action per turn of its loop *)

procvars ==
    <<mode, arg, conv, compiler, out, nfiles, opts, idx, attempted, written,
      printed, cfErr, exit, tmp, interp>>

vars == <<lexvars, ret, pc, procvars>>

Lexer ==
    [source |-> source, tokens |-> tokens, start |-> start,
     current |-> current, line |-> line, column |-> column,
     startColumn |-> startColumn, err |-> NoErr, panic |-> FALSE]

NoRet == [tokens |-> <<>>, err |-> NoErr]

SetLexer(l) ==
    /\ source' = l.source
    /\ tokens' = l.tokens
    /\ start' = l.start
    /\ current' = l.current
    /\ line' = l.line
    /\ column' = l.column
    /\ startColumn' = l.startColumn

\* what the loop does with the lexer scanToken left: it goes on, returns
\* nil and the error, or the process dies of the run-time panic
TokenizeTurn(l) ==
    /\ SetLexer(l)
    /\ pc' = IF l.panic THEN "panic"
             ELSE IF l.err.msg # "" THEN "Tokenized"
             ELSE "Tokenize"
    /\ ret' = IF ~l.panic /\ l.err.msg # ""
              THEN [tokens |-> <<>>, err |-> l.err]
              ELSE ret

\* the token a turn appended is recorded with the span start..current
Spanned(l) ==
    IF Len(l.tokens) > Len(tokens)
    THEN Append(spans, [start |-> l.start, end |-> l.current])
    ELSE spans

ScanToken ==
    /\ pc = "Tokenize"
    /\ ~isAtEnd(Lexer)
    /\ LET l == scanToken([Lexer EXCEPT !.start = current,
                                        !.startColumn = column])
       IN /\ TokenizeTurn(l)
          /\ spans' = Spanned(l)
    /\ steps' = steps + 1
    /\ UNCHANGED procvars

\* the end of the loop without the end-of-input token
TokenizeEndNoEof ==
    /\ pc = "Tokenize"
    /\ isAtEnd(Lexer)
    /\ ret' = [tokens |-> tokens, err |-> NoErr]
    /\ pc' = "Tokenized"
    /\ UNCHANGED <<lexvars, procvars>>

\* the loop ends: the end-of-input token is appended and l.tokens returned
TokenizeEnd ==
    /\ pc = "Tokenize"
    /\ isAtEnd(Lexer)
    /\ LET l == [Lexer EXCEPT !.tokens =
                     Append(@, [Type |-> "TOKEN_EOF", Value |-> <<>>,
                                Line |-> line, Column |-> column])]
       IN /\ SetLexer(l)
          /\ ret' = [tokens |-> l.tokens, err |-> NoErr]
    /\ pc' = "Tokenized"
    /\ UNCHANGED <<steps, spans, procvars>>

\* all texts over an alphabet up to a length
Texts(alphabet, n) == UNION {[1..k -> alphabet] : k \in 0..n}

NoOut == [text |-> "", err |-> NoErr]

NoOpts ==
    [OutputFile |-> FALSE, PrintOnly |-> FALSE, Quiet |-> FALSE,
     ToStdout |-> FALSE]

NoInterp == [ran |-> FALSE, status |-> 0, name |-> ""]

\* a process that has done nothing yet
InitProcess(m) ==
    /\ mode = m
    /\ arg = <<>>
    /\ conv = <<>>
    /\ compiler = FALSE
    /\ out = NoOut
    /\ idx = 0
    /\ attempted = {}
    /\ written = {}
    /\ printed = {}
    /\ cfErr = ""
    /\ exit = -1
    /\ tmp = "none"
    /\ interp = NoInterp

\* NewLexer(src), about to enter Tokenize
InitLexer(sources) ==
    /\ source \in sources
    /\ tokens = <<>>
    /\ start = 0
    /\ current = 0
    /\ line = 1
    /\ column = 1
    /\ startColumn = 0
    /\ steps = 0
    /\ spans = <<>>
    /\ ret = NoRet
    /\ pc = "Tokenize"
    /\ InitProcess("lex")
    /\ nfiles = 0
    /\ opts = NoOpts

NextLexer == ScanToken \/ TokenizeEnd

----------------------------------------------------------------------------
(* Quoted strings: texts over a quote, backslash, newline and filler *)

MaxQuotedLen == 5

QuotedAlphabet == {"\"", "'", "\\", "\n", "a"}

InitQuoted == InitLexer(Texts(QuotedAlphabet, MaxQuotedLen))

SpecQuoted == InitQuoted /\ [][NextLexer]_vars

----------------------------------------------------------------------------
(* What the source text says, read off the text and not off the lexer *)

Quotes == {"\"", "'"}

\* the number of newline bytes in the first n bytes of s
RECURSIVE NewlinesBefore(_, _)
NewlinesBefore(s, n) ==
    IF n = 0 THEN 0
    ELSE NewlinesBefore(s, n - 1) + (IF s[n] = "\n" THEN 1 ELSE 0)

\* the number of consecutive backslashes that end right before position k
\* and lie at or after position lo
RECURSIVE BackslashRun(_, _, _)
BackslashRun(s, lo, k) ==
    IF k - 1 >= lo /\ s[k - 1] = "\\" THEN 1 + BackslashRun(s, lo, k - 1)
    ELSE 0

\* position k of a quoted string whose body begins at lo is the second byte
\* of an escape pair: an odd number of backslashes precedes it
Escaped(s, lo, k) == BackslashRun(s, lo, k) % 2 = 1

\* the first position after the opening quote at 0-based offset st that
\* holds, unescaped, the quote or a newline; 0 when there is none
FirstRaw(s, st) ==
    LET raw == {k \in st + 2 .. Len(s) :
                   s[k] \in {s[st + 1], "\n"} /\ ~Escaped(s, st + 2, k)}
    IN IF raw = {} THEN 0 ELSE CHOOSE k \in raw : \A j \in raw : k <= j

\* the last scan step began at a quote
AfterQuoted == current > start /\ source[start + 1] \in Quotes

QuotedTokens ==
    {i \in 1..Len(tokens) :
        tokens[i].Type = "TOKEN_STRING" /\ tokens[i].Value[1] \in Quotes}

----------------------------------------------------------------------------
(* C1: for every source Tokenize returns tokens or a lexical error: no    *)
(* scan step reads the source outside 0..len(source)-1 (which in Go is a  *)
(* run-time panic), and 0 <= start <= current <= len(source) holds in     *)
(* every reachable state of the lexer.                                    *)
C1_ReadsInBounds ==
    /\ pc # "panic"
    /\ 0 <= start /\ start <= current /\ current <= Len(source)

(* C3: when Tokenize fails with "unterminated string", the line of the    *)
(* error is the 1-based line of the opening quote: 1 + the number of      *)
(* newlines before it in the source.                                      *)
C3_ErrorLineIsQuoteLine ==
    (pc = "Tokenized" /\ ret.err.msg = "unterminated string")
        => ret.err.line = 1 + NewlinesBefore(source, start)

(* C7, as stated: a newline anywhere between the opening quote and the    *)
(* closing quote makes Tokenize fail with "unterminated string", and no   *)
(* token of a quoted string holds a newline, also not after a backslash.  *)
C7_NoNewlineInQuoted ==
    /\ (AfterQuoted /\ \E k \in start + 2 .. Len(source) :
            /\ source[k] = "\n"
            /\ \A j \in start + 2 .. k - 1 : j # FirstRaw(source, start))
          => (pc = "Tokenized" /\ ret.err.msg = "unterminated string")
    /\ \A i \in QuotedTokens :
          \A j \in 1..Len(tokens[i].Value) : tokens[i].Value[j] # "\n"

(* C7, amended: a newline that is not the byte right after an escaping    *)
(* backslash, met before the closing quote, makes Tokenize return the     *)
(* "unterminated string" error and no tokens; every newline in the token  *)
(* of a quoted string is the second byte of a backslash escape pair.      *)
C7_RawNewlineIsError ==
    /\ (AfterQuoted /\ FirstRaw(source, start) # 0
          /\ source[FirstRaw(source, start)] = "\n")
          => /\ pc = "Tokenized"
             /\ ret.err.msg = "unterminated string"
             /\ ret.tokens = <<>>
    /\ \A i \in QuotedTokens :
          \A j \in 1..Len(tokens[i].Value) :
              tokens[i].Value[j] = "\n" => Escaped(tokens[i].Value, 2, j)

\* an escaped newline was skipped and the raw newline after it is the error
C7_Witness ==
    /\ AfterQuoted
    /\ pc = "Tokenized" /\ ret.err.msg = "unterminated string"
    /\ FirstRaw(source, start) # 0
    /\ source[FirstRaw(source, start)] = "\n"
    /\ \E k \in start + 2 .. FirstRaw(source, start) - 1 : source[k] = "\n"

----------------------------------------------------------------------------
(* Long brackets: texts over dash, brackets, equals sign, newline, filler *)

MaxLongLen == 6

LongAlphabet == {"-", "[", "=", "]", "\n", "a"}

\* longer texts: closing brackets of another level inside a long bracket
LongBrackets ==
    {<<"-", "-", "[", "=", "[", "]", "]", "=", "]", "a">>,
     <<"-", "-", "[", "=", "=", "[", "]", "=", "]", "=", "=", "]">>,
     <<"[", "=", "[", "]", "]", "=", "]">>,
     <<"[", "=", "=", "[", "\n", "]", "=", "]", "=", "=", "]", "a">>,
     <<"-", "-", "[", "[", "\n", "]", "=", "]", "]", "[", "=", "a">>}

InitLong == InitLexer(Texts(LongAlphabet, MaxLongLen) \cup LongBrackets)

SpecLong == InitLong /\ [][NextLexer]_vars

\* the number of consecutive equals signs from position p on
RECURSIVE EqualsRun(_, _)
EqualsRun(s, p) ==
    IF p <= Len(s) /\ s[p] = "=" THEN 1 + EqualsRun(s, p + 1) ELSE 0

\* the level n of the long bracket '[' '='^n '[' at position p, -1 if none
LongLevel(s, p) ==
    IF p <= Len(s) /\ s[p] = "["
    THEN LET n == EqualsRun(s, p + 1) IN
         IF p + 1 + n <= Len(s) /\ s[p + 1 + n] = "[" THEN n ELSE -1
    ELSE -1

\* a closing bracket ']' '='^n ']' begins at some position from p on
ClosesFrom(s, p, n) ==
    \E k \in p..Len(s) :
        /\ s[k] = "]"
        /\ k + n + 1 <= Len(s)
        /\ \A j \in 1..n : s[k + j] = "="
        /\ s[k + n + 1] = "]"

\* the last scan step began at a long bracket that nothing closes
AfterOpenLongString ==
    /\ current > start
    /\ LongLevel(source, start + 1) >= 0
    /\ ~ClosesFrom(source, start + 3 + LongLevel(source, start + 1),
                   LongLevel(source, start + 1))

\* the last scan step began at "--" and a long bracket that nothing closes
AfterOpenLongComment ==
    /\ current > start
    /\ start + 2 <= Len(source)
    /\ source[start + 1] = "-" /\ source[start + 2] = "-"
    /\ LongLevel(source, start + 3) >= 0
    /\ ~ClosesFrom(source, start + 5 + LongLevel(source, start + 3),
                   LongLevel(source, start + 3))

(* C6: when the input ends inside a multiline string or a multiline       *)
(* comment (opened, and no matching close follows), Tokenize returns a    *)
(* lexical error instead of tokens.                                       *)
C6_OpenLongIsError ==
    (AfterOpenLongString \/ AfterOpenLongComment)
        => (pc = "Tokenized" /\ ret.err.msg # "" /\ ret.tokens = <<>>)

----------------------------------------------------------------------------
(* Template strings: texts over back-quote, backslash, "${", braces,      *)
(* newline and filler                                                      *)

MaxTemplateLen == 5

TemplateAlphabet == {BQ, "\\", "$", "{", "}", "\n", "a"}

\* longer texts: braces and back-quotes inside an interpolation, escapes
LongTemplates ==
    {<<BQ, "$", "{", "{", "}", BQ, "}", "\\", BQ, "a", BQ, "a">>,
     <<BQ, "$", "{", BQ, "\n", "}", BQ>>,
     <<BQ, "\\", "$", "{", BQ, "}">>,
     <<BQ, "$", "{", "\\", "}", "\\", "\\", BQ, "a", BQ>>}

InitTemplate ==
    InitLexer(Texts(TemplateAlphabet, MaxTemplateLen) \cup LongTemplates)

SpecTemplate == InitTemplate /\ [][NextLexer]_vars

\* read off the text: a template literal whose body is read from position
\* p on, with depth braces of an interpolation open, meets its closing
\* back-quote before the end of input
RECURSIVE TemplateCloses(_, _, _)
TemplateCloses(s, p, depth) ==
    IF p > Len(s) THEN FALSE
    ELSE IF depth = 0
    THEN IF s[p] = BQ THEN TRUE
         ELSE IF s[p] = "\\" THEN TemplateCloses(s, p + 2, 0)
         ELSE IF s[p] = "$" /\ p + 1 <= Len(s) /\ s[p + 1] = "{"
         THEN TemplateCloses(s, p + 2, 1)
         ELSE TemplateCloses(s, p + 1, 0)
    ELSE IF s[p] = "{" THEN TemplateCloses(s, p + 1, depth + 1)
    ELSE IF s[p] = "}" THEN TemplateCloses(s, p + 1, depth - 1)
    ELSE TemplateCloses(s, p + 1, depth)

\* a scan step is about to begin at a back-quote that nothing closes
AtOpenTemplate ==
    /\ pc = "Tokenize"
    /\ ~isAtEnd(Lexer)
    /\ source[current + 1] = BQ
    /\ ~TemplateCloses(source, current + 2, 0)

(* C8: when end of input is reached after an opening back-quote and       *)
(* before its closing back-quote (in the literal text, right after a      *)
(* backslash, or inside an interpolation whose braces have not balanced), *)
(* Tokenize returns the unterminated-template-string error and no tokens, *)
(* and no token is appended for the literal.                              *)
C8_OpenTemplateIsError ==
    [][AtOpenTemplate =>
         /\ pc' = "Tokenized"
         /\ ret'.err.msg = "unterminated template string"
         /\ ret'.tokens = <<>>
         /\ tokens' = tokens]_vars

\* the error, for a literal that ends inside an interpolation which holds
\* a back-quote
C8_Witness ==
    /\ pc = "Tokenized"
    /\ ret.err.msg = "unterminated template string"
    /\ source[start + 1] = BQ
    /\ \E k \in start + 2 .. Len(source) - 2 :
          /\ \A j \in start + 2 .. k - 1 : source[j] = "a"
          /\ source[k] = "$" /\ source[k + 1] = "{"
          /\ \E j \in k + 2 .. Len(source) : source[j] = BQ
          /\ \A j \in k + 2 .. Len(source) : source[j] \notin {"{", "}"}

----------------------------------------------------------------------------
(* Operator digraphs: texts over '!', '~', '?', '=', '.' and filler *)

MaxOpsLen == 5

OpsAlphabet == {"!", "~", "?", "=", ".", "a"}

InitOps == InitLexer(Texts(OpsAlphabet, MaxOpsLen))

SpecOps == InitOps /\ [][NextLexer]_vars

\* the byte after the one a scan step is about to begin at
NextByte == IF current + 2 <= Len(source) THEN source[current + 2] ELSE NUL

FailsUnexpected(c) ==
    /\ pc' = "Tokenized"
    /\ ret'.err.msg = "unexpected character"
    /\ ret'.err.ch = c
    /\ ret'.tokens = <<>>

(* C9: a '!', '~' or '?' that does not begin a digraph ("!=", "~=", "?.", *)
(* "??") makes Tokenize return a lexical error and no tokens; "!=" and    *)
(* "~=" each append exactly one token, of the same not-equal kind.        *)
C9_BareOperatorIsError ==
    [][(pc = "Tokenize" /\ ~isAtEnd(Lexer)) =>
         LET c == source[current + 1] IN
         /\ (c \in {"!", "~"} /\ NextByte # "=") => FailsUnexpected(c)
         /\ (c = "?" /\ NextByte \notin {".", "?"}) => FailsUnexpected(c)
         /\ (c \in {"!", "~"} /\ NextByte = "=") =>
               /\ pc' = "Tokenize"
               /\ current' = current + 2
               /\ tokens' = Append(tokens, [Type |-> "TOKEN_NEQ",
                                            Value |-> <<c, "=">>,
                                            Line |-> line,
                                            Column |-> column])]_vars

\* both spellings gave a not-equal token and a bare '!' then failed
C9_Witness ==
    /\ pc = "Tokenized"
    /\ ret.err.msg = "unexpected character" /\ ret.err.ch = "!"
    /\ ret.tokens = <<>>
    /\ \E i, j \in 1..Len(tokens) :
          /\ tokens[i].Type = "TOKEN_NEQ" /\ tokens[i].Value = <<"!", "=">>
          /\ tokens[j].Type = "TOKEN_NEQ" /\ tokens[j].Value = <<"~", "=">>

----------------------------------------------------------------------------
(* Based numerals: "0" and a base letter, then up to MaxDigits bytes that *)
(* are or are not digits of the base, and a few numerals at the edge of   *)
(* 64 bits.  After Tokenize, ConvertNumber is applied to the text of      *)
(* every number token, as the code generator does.                        *)

MaxDigits == 4

BaseLetters == {"b", "B", "o", "O", "x", "X"}

NumeralBytes == {"0", "1", "7", "8", "F"}

Numerals ==
    {<<"0", p>> \o d : p \in BaseLetters, d \in Texts(NumeralBytes, MaxDigits)}

Repeat(c, n) == [k \in 1..n |-> c]

\* numerals past 32 bits and at the edge of 64 bits: 2^31, 2^62 and
\* 2^63 - 1, and the first values that no longer fit, 2^63 and 2^66 - 1
LongNumerals ==
    {<<"0", "B", "1">> \o Repeat("0", 31),
     <<"0", "O", "4">> \o Repeat("0", 20),
     <<"0", "o">> \o Repeat("7", 21),
     <<"0", "o", "1">> \o Repeat("0", 21),
     <<"0", "o">> \o Repeat("7", 22)}

InitNumerals ==
    /\ source \in Numerals \cup LongNumerals
    /\ tokens = <<>>
    /\ start = 0
    /\ current = 0
    /\ line = 1
    /\ column = 1
    /\ startColumn = 0
    /\ steps = 0
    /\ spans = <<>>
    /\ ret = NoRet
    /\ pc = "Tokenize"
    /\ InitProcess("convert")
    /\ nfiles = 0
    /\ opts = NoOpts

NumberTokens(toks) == SelectSeq(toks, LAMBDA t : t.Type = "TOKEN_NUMBER")

ConvertNumbers ==
    /\ pc = "Tokenized"
    /\ mode = "convert"
    /\ ret.err.msg = ""
    /\ conv' = [k \in 1..Len(NumberTokens(ret.tokens)) |->
                   ConvertNumber(NumberTokens(ret.tokens)[k].Value)]
    /\ pc' = "Converted"
    /\ UNCHANGED <<lexvars, ret, mode, arg, compiler, out, nfiles, opts, idx,
                   attempted, written, printed, cfErr, exit, tmp, interp>>

NextNumerals == ScanToken \/ TokenizeEnd \/ ConvertNumbers

SpecNumerals == InitNumerals /\ [][NextNumerals]_vars

\* read off the text: the value of the digit bytes s[k..] in the base
RECURSIVE ValueOf(_, _, _, _)
ValueOf(s, k, base, acc) ==
    IF k > Len(s) THEN acc
    ELSE ValueOf(s, k + 1, base, acc * base + DigitValue(s[k]))

\* the decimal digit string of a natural number
RECURSIVE Decimal(_)
Decimal(n) ==
    IF n < 10 THEN <<DigitChars[n + 1]>>
    ELSE Append(Decimal(n \div 10), DigitChars[(n % 10) + 1])

\* the source is "0", a base letter among letters, and one or more (or,
\* with least = 0, no) bytes that are all digits of the base
IsLiteral(letters, digits, least) ==
    /\ Len(source) >= 2 + least
    /\ source[1] = "0" /\ source[2] \in letters
    /\ \A k \in 3..Len(source) : source[k] \in digits

\* Tokenize returned the one number token that is the whole source
OneNumberToken ==
    /\ ret.err.msg = ""
    /\ Len(ret.tokens) = 2
    /\ ret.tokens[1].Type = "TOKEN_NUMBER" /\ ret.tokens[1].Value = source
    /\ ret.tokens[2].Type = "TOKEN_EOF"

ConvertedTo(text) ==
    pc = "Converted" => conv = <<[text |-> text, err |-> "", lit |-> <<>>]>>

\* the decimal digits of the long numerals that fit 64 bits
LongDecimal ==
    (<<"0", "B", "1">> \o Repeat("0", 31) :>
        <<"2", "1", "4", "7", "4", "8", "3", "6", "4", "8">>) @@
    (<<"0", "O", "4">> \o Repeat("0", 20) :>
        <<"4", "6", "1", "1", "6", "8", "6", "0", "1", "8",
          "4", "2", "7", "3", "8", "7", "9", "0", "4">>) @@
    (<<"0", "o">> \o Repeat("7", 21) :>
        <<"9", "2", "2", "3", "3", "7", "2", "0", "3", "6",
          "8", "5", "4", "7", "7", "5", "8", "0", "7">>)

\* the value of the source fits 64 bits
Fits64 == Len(source) <= 2 + MaxDigits \/ source \in DOMAIN LongDecimal

\* the decimal digits of the value of the source, a literal of the base
DecimalOfSource(base) ==
    IF source \in DOMAIN LongDecimal THEN LongDecimal[source]
    ELSE Decimal(ValueOf(source, 3, base, 0))

(* C10: for every binary literal (0b or 0B and one or more 0/1 digits)    *)
(* and every octal literal (0o or 0O and one or more 0-7 digits) whose    *)
(* value fits 64 bits, the lexer emits exactly one number token with that *)
(* text and ConvertNumber returns the decimal digits of its value; for    *)
(* every hex literal ConvertNumber returns the text unchanged.            *)
C10_BaseConversion ==
    pc \in {"Tokenized", "Converted"} =>
        /\ (IsLiteral({"b", "B"}, {"0", "1"}, 1) /\ Fits64) =>
              /\ OneNumberToken
              /\ ConvertedTo(DecimalOfSource(2))
        /\ (IsLiteral({"o", "O"}, {"0", "1", "2", "3", "4", "5", "6", "7"}, 1)
              /\ Fits64) =>
              /\ OneNumberToken
              /\ ConvertedTo(DecimalOfSource(8))
        /\ IsLiteral({"x", "X"}, HexDigits, 0) =>
              /\ OneNumberToken
              /\ ConvertedTo(source)

\* 0b1011 became 11
C10_Witness ==
    /\ pc = "Converted"
    /\ source = <<"0", "b", "1", "0", "1", "1">>
    /\ conv = <<[text |-> <<"1", "1">>, err |-> "", lit |-> <<>>]>>

----------------------------------------------------------------------------
(* Decimal and hex numerals: texts over digits, the point, the exponent   *)
(* letters, the signs, 'x', a hex letter and the blank, and a few longer  *)
(* numerals.  ConvertNumber is applied to every number token.             *)

MaxNumeralLen == 4

NumeralAlphabet == {"0", "9", ".", "e", "E", "+", "-", "x", "F", " "}

LongDecimals ==
    {<<"1", ".", "5", "e", "+", "1", "0">>,
     <<"1", "2", ".", "5", "0", "E", "-", "3">>,
     <<".", "5", "e", "1", "0">>,
     <<"0", "X", "1", "f", " ", "0", "x", "D", "E", "A", "D", "b", "e">>}

InitDecimals ==
    /\ source \in Texts(NumeralAlphabet, MaxNumeralLen) \cup LongDecimals
    /\ tokens = <<>>
    /\ start = 0
    /\ current = 0
    /\ line = 1
    /\ column = 1
    /\ startColumn = 0
    /\ steps = 0
    /\ spans = <<>>
    /\ ret = NoRet
    /\ pc = "Tokenize"
    /\ InitProcess("convert")
    /\ nfiles = 0
    /\ opts = NoOpts

SpecDecimals == InitDecimals /\ [][NextNumerals]_vars

\* the bytes a..b of s are all of the class (none, when a > b)
AllIn(s, a, b, class) == \A k \in a..b : s[k] \in class

\* read off the text: s is digits, an optional point and digits, and an
\* optional exponent (e or E, an optional sign, digits); the digits before
\* the point may be missing when a fraction is there
DecimalNumeral(s) ==
    \E a \in 0..Len(s) : \E b \in a..Len(s) :
        /\ AllIn(s, 1, a, Digits)
        /\ b = a \/ (s[a + 1] = "." /\ b >= a + 2 /\ AllIn(s, a + 2, b, Digits))
        /\ b >= 1
        /\ b = Len(s) \/
             /\ s[b + 1] \in {"e", "E"}
             /\ LET q == IF b + 2 <= Len(s) /\ s[b + 2] \in {"+", "-"}
                         THEN b + 3 ELSE b + 2
                IN q <= Len(s) /\ AllIn(s, q, Len(s), Digits)

\* read off the text: s is "0", x or X, and one or more hex digits
HexNumeral(s) ==
    /\ Len(s) >= 3
    /\ s[1] = "0" /\ s[2] \in {"x", "X"}
    /\ AllIn(s, 3, Len(s), HexDigits)

\* the source begins with a numeral of n bytes that the end of input or a
\* blank ends
NumeralAt(n) ==
    /\ DecimalNumeral(SubSeq(source, 1, n)) \/ HexNumeral(SubSeq(source, 1, n))
    /\ n = Len(source) \/ source[n + 1] = " "

(* C11: for every decimal, float, exponent or hex numeral at the head of  *)
(* the source (ended by a blank or the end of input) the first scan step  *)
(* appends exactly one number token, whose text is the numeral's source   *)
(* text and whose span is the numeral; when the numeral is the whole      *)
(* source Tokenize returns that token and the end-of-input token; and     *)
(* ConvertNumber applied to the token's text returns it unchanged.        *)
C11_RoundTrip ==
    \A n \in 1..Len(source) :
        NumeralAt(n) =>
            /\ current >= n =>
                  /\ Len(tokens) >= 1
                  /\ tokens[1].Type = "TOKEN_NUMBER"
                  /\ tokens[1].Value = SubSeq(source, 1, n)
                  /\ spans[1] = [start |-> 0, end |-> n]
            /\ (n = Len(source) /\ pc \in {"Tokenized", "Converted"}) =>
                  /\ ret.err.msg = ""
                  /\ Len(ret.tokens) = 2
                  /\ ret.tokens[2].Type = "TOKEN_EOF"
            /\ pc = "Converted" =>
                  conv[1] = [text |-> SubSeq(source, 1, n), err |-> "",
                             lit |-> <<>>]

\* 12.50E-3 went through the lexer and ConvertNumber unchanged
C11_Witness ==
    /\ pc = "Converted"
    /\ source = <<"1", "2", ".", "5", "0", "E", "-", "3">>
    /\ NumeralAt(Len(source))
    /\ Len(ret.tokens) = 2
    /\ ret.tokens[1].Value = source
    /\ conv = <<[text |-> source, err |-> "", lit |-> <<>>]>>

----------------------------------------------------------------------------
(* The scan steps of Tokenize, over the long-bracket texts *)

\* a scan step is about to begin at byte c
AtByte(c) == pc = "Tokenize" /\ ~isAtEnd(Lexer) /\ source[current + 1] = c

\* a scan step is about to begin at the two dashes of a comment
AtComment == AtByte("-") /\ NextByte = "-"

\* the step appended nothing, or exactly one token
AppendedAtMostOne ==
    \/ tokens' = tokens
    \/ /\ Len(tokens') = Len(tokens) + 1
       /\ SubSeq(tokens', 1, Len(tokens)) = tokens

(* C12: every scan step that returns without error starts at the cursor, *)
(* leaves the cursor strictly to the right of where it started and        *)
(* appends zero or one token, none for a newline or a comment; this also  *)
(* holds when a '[' and '=' run is re-read as a plain bracket.  No more  *)
(* than len(source) steps are ever taken, so Tokenize terminates.         *)
C12_StepsAdvance ==
    [][/\ steps' <= Len(source)
       /\ (pc = "Tokenize" /\ pc' = "Tokenize") =>
             /\ start' = current
             /\ current' > current
             /\ current' <= Len(source)
             /\ steps' = steps + 1
             /\ AppendedAtMostOne
             /\ (AtByte("\n") \/ AtComment) => tokens' = tokens]_vars

\* a '[' and '=' run was re-read as a plain bracket, a comment and a
\* newline were skipped, and every byte took a step of its own
C12_Witness ==
    /\ pc = "Tokenized" /\ ret.err.msg = ""
    /\ source = <<"[", "=", "\n", "-", "-", "a">>
    /\ steps = 4
    /\ Len(tokens) = 3
    /\ tokens[1].Type = "TOKEN_LBRACKET" /\ spans[1] = [start |-> 0, end |-> 1]

----------------------------------------------------------------------------
(* Long brackets: where they end *)

\* a closing bracket ']' '='^n ']' begins at position k of s
ClosesAt(s, k, n) ==
    /\ k + n + 1 <= Len(s)
    /\ s[k] = "]"
    /\ \A j \in 1..n : s[k + j] = "="
    /\ s[k + n + 1] = "]"

\* the first position from p on where a closing bracket of level n begins,
\* 0 when there is none
FirstClose(s, p, n) ==
    IF ClosesFrom(s, p, n)
    THEN CHOOSE k \in p..Len(s) :
             ClosesAt(s, k, n) /\ \A j \in p..k - 1 : ~ClosesAt(s, j, n)
    ELSE 0

\* the position of the last byte of the long bracket of level n that opens
\* at position q, 0 when nothing closes it
LongEnd(s, q, n) ==
    LET k == FirstClose(s, q + n + 2, n) IN
    IF k = 0 THEN 0 ELSE k + n + 1

\* some closing bracket of another level lies inside the bytes q..e of s
OtherLevelInside(s, q, e, n) ==
    \E k \in q..e : \E m \in 0..Len(s) :
        m # n /\ k + m + 1 < e /\ ClosesAt(s, k, m)

(* C13: a multiline string or comment opened with '[', n '=' and '['      *)
(* ends at the first later ']' followed by exactly n '=' and ']'; closing *)
(* brackets of another level inside do not end it.  For a string the step *)
(* appends exactly one string token whose text is the source from the     *)
(* opening '[' through the closing ']'; for a comment it appends nothing. *)
C13_LongBracketEnds ==
    [][/\ (AtByte("[") /\ LongLevel(source, current + 1) >= 0
             /\ LongEnd(source, current + 1,
                        LongLevel(source, current + 1)) # 0) =>
            LET e == LongEnd(source, current + 1,
                             LongLevel(source, current + 1))
            IN /\ pc' = "Tokenize"
               /\ current' = e
               /\ Len(tokens') = Len(tokens) + 1
               /\ SubSeq(tokens', 1, Len(tokens)) = tokens
               /\ tokens'[Len(tokens')].Type = "TOKEN_STRING"
               /\ tokens'[Len(tokens')].Value =
                      SubSeq(source, current + 1, e)
       /\ (AtComment /\ LongLevel(source, current + 3) >= 0
             /\ LongEnd(source, current + 3,
                        LongLevel(source, current + 3)) # 0) =>
            /\ pc' = "Tokenize"
            /\ current' = LongEnd(source, current + 3,
                                  LongLevel(source, current + 3))
            /\ tokens' = tokens]_vars

\* a string of level 2 that holds a newline and a close of level 1 is one
\* token, and the identifier after it is the next token
C13_Witness ==
    /\ pc = "Tokenized" /\ ret.err.msg = ""
    /\ LongLevel(source, 1) = 2
    /\ OtherLevelInside(source, 1, LongEnd(source, 1, 2), 2)
    /\ Len(ret.tokens) = 3
    /\ ret.tokens[1].Type = "TOKEN_STRING"
    /\ ret.tokens[1].Value = SubSeq(source, 1, LongEnd(source, 1, 2))
    /\ ret.tokens[2].Type = "TOKEN_IDENT"

----------------------------------------------------------------------------
(* Comments that begin like a long bracket and are none *)

\* the number of bytes before the first newline at or after position p of
\* s, len(s) when there is none
LineEnd(s, p) ==
    IF \E k \in p..Len(s) : s[k] = "\n"
    THEN (CHOOSE k \in p..Len(s) :
              s[k] = "\n" /\ \A j \in p..k - 1 : s[j] # "\n") - 1
    ELSE Len(s)

\* a scan step is about to begin at "--[" with no long bracket there
AtFallbackComment ==
    /\ AtComment
    /\ current + 3 <= Len(source) /\ source[current + 3] = "["
    /\ LongLevel(source, current + 3) = -1

(* C14: when "--" is followed by '[' and the bytes after it are not zero  *)
(* or more '=' and a second '[', the step consumes exactly the bytes up   *)
(* to, not including, the next newline or the end of input, appends no    *)
(* token, reports no error and leaves the line count alone, so that the   *)
(* next step begins at that newline.                                      *)
C14_CommentFallback ==
    [][AtFallbackComment =>
         /\ pc' = "Tokenize"
         /\ current' = LineEnd(source, current + 1)
         /\ tokens' = tokens
         /\ line' = line]_vars

\* "--[=" ran to the end of its line and the next line gave its token
C14_Witness ==
    /\ pc = "Tokenized" /\ ret.err.msg = ""
    /\ source = <<"-", "-", "[", "=", "\n", "a">>
    /\ Len(ret.tokens) = 2
    /\ ret.tokens[1].Type = "TOKEN_IDENT" /\ ret.tokens[1].Value = <<"a">>
    /\ ret.tokens[1].Line = 2
    /\ spans[1] = [start |-> 5, end |-> 6]

----------------------------------------------------------------------------
(* Operators that need lookahead: texts over the point, '?', ':', '=' and *)
(* the arithmetic operators                                               *)

MaxOperatorLen == 4

OperatorAlphabet == {".", "?", ":", "=", "+", "-", "*", "/", "%", "^"}

InitOperators == InitLexer(Texts(OperatorAlphabet, MaxOperatorLen))

SpecOperators == InitOperators /\ [][NextLexer]_vars

\* the token types of the operators made of these bytes, as the TokenType
\* constants name them
OperatorTypes ==
    (<<"+">> :> "TOKEN_PLUS") @@ (<<"-">> :> "TOKEN_MINUS") @@
    (<<"*">> :> "TOKEN_STAR") @@ (<<"/">> :> "TOKEN_SLASH") @@
    (<<"%">> :> "TOKEN_PERCENT") @@ (<<"^">> :> "TOKEN_CARET") @@
    (<<"=", "=">> :> "TOKEN_EQ") @@ (<<"=">> :> "TOKEN_ASSIGN") @@
    (<<":">> :> "TOKEN_COLON") @@ (<<":", ":">> :> "TOKEN_DOUBLECOLON") @@
    (<<".">> :> "TOKEN_DOT") @@ (<<".", ".">> :> "TOKEN_DOTDOT") @@
    (<<".", ".", ".">> :> "TOKEN_DOTDOTDOT") @@
    (<<"?", ".">> :> "TOKEN_QUESTION_DOT") @@
    (<<"?", "?">> :> "TOKEN_DOUBLE_QUESTION") @@
    (<<"+", "=">> :> "TOKEN_PLUS_ASSIGN") @@
    (<<"-", "=">> :> "TOKEN_MINUS_ASSIGN") @@
    (<<"*", "=">> :> "TOKEN_STAR_ASSIGN") @@
    (<<"/", "=">> :> "TOKEN_SLASH_ASSIGN") @@
    (<<"%", "=">> :> "TOKEN_PERCENT_ASSIGN") @@
    (<<".", ".", "=">> :> "TOKEN_DOTDOT_ASSIGN")

\* the n bytes at the cursor, fewer when the input ends before
Ahead(n) ==
    SubSeq(source, current + 1,
           IF current + n <= Len(source) THEN current + n ELSE Len(source))

\* a scan step is about to begin where some operator matches, and not at
\* the two dashes of a comment
AtOperator ==
    /\ pc = "Tokenize" /\ ~isAtEnd(Lexer)
    /\ ~(source[current + 1] = "-" /\ NextByte = "-")
    /\ \E n \in 1..3 : Ahead(n) \in DOMAIN OperatorTypes

\* the longest operator that matches at the cursor
Longest ==
    Ahead(CHOOSE n \in 1..3 :
              /\ Ahead(n) \in DOMAIN OperatorTypes
              /\ \A m \in n + 1 .. 3 : Ahead(m) \notin DOMAIN OperatorTypes)

\* the step appended the longest operator at the cursor as one token
GreedyStep ==
    /\ pc' = "Tokenize"
    /\ current' = current + Len(Longest)
    /\ tokens' = Append(tokens, [Type |-> OperatorTypes[Longest],
                                 Value |-> Longest,
                                 Line |-> line, Column |-> column])

\* the step appended the operator c and the '=' after it as one token, of
\* a kind that is neither the operator's nor the assignment's
CompoundStep(c) ==
    /\ pc' = "Tokenize"
    /\ current' = current + 2
    /\ Len(tokens') = Len(tokens) + 1
    /\ tokens'[Len(tokens')].Value = <<c, "=">>
    /\ tokens'[Len(tokens')].Type
           \notin {OperatorTypes[<<c>>], "TOKEN_ASSIGN", "TOKEN_EQ"}

(* C15, as stated: operators are tokenized by longest match ('.', '..',   *)
(* '...', '..='; '?.' and '??'; ':' and '::'), and each of '+', '-', '*', *)
(* '/', '%', '^' immediately followed by '=' yields one compound          *)
(* assignment token.                                                      *)
C15_CompoundForEveryArithmetic ==
    [][AtOperator =>
         IF source[current + 1] \in {"+", "-", "*", "/", "%", "^"}
            /\ NextByte = "="
         THEN CompoundStep(source[current + 1])
         ELSE GreedyStep]_vars

(* C15, amended: every step that begins at an operator appends the        *)
(* longest operator token that matches at the cursor; each of '+', '-',   *)
(* '*', '/', '%' immediately followed by '=' yields one compound          *)
(* assignment token; '^' has no compound form, it yields the '^' token    *)
(* and the '=' after it begins the next token.                            *)
C15_GreedyOperators ==
    [][AtOperator =>
         /\ GreedyStep
         /\ (source[current + 1] \in {"+", "-", "*", "/", "%"}
               /\ NextByte = "=") => CompoundStep(source[current + 1])
         /\ source[current + 1] = "^" => current' = current + 1]_vars

\* "+=" was one token, "^=" two
C15_Witness ==
    /\ pc = "Tokenized" /\ ret.err.msg = ""
    /\ source = <<"+", "=", "^", "=">>
    /\ Len(ret.tokens) = 4
    /\ ret.tokens[1].Type = "TOKEN_PLUS_ASSIGN"
    /\ ret.tokens[2].Type = "TOKEN_CARET"
    /\ ret.tokens[3].Type = "TOKEN_ASSIGN"

----------------------------------------------------------------------------
(* Template strings: where they end *)

\* read off the text: the position of the back-quote that closes a
\* template literal whose body is read from position p on with depth
\* braces of an interpolation open, 0 when the input ends before
RECURSIVE TemplateEnd(_, _, _)
TemplateEnd(s, p, depth) ==
    IF p > Len(s) THEN 0
    ELSE IF depth = 0
    THEN IF s[p] = BQ THEN p
         ELSE IF s[p] = "\\" THEN TemplateEnd(s, p + 2, 0)
         ELSE IF s[p] = "$" /\ p + 1 <= Len(s) /\ s[p + 1] = "{"
         THEN TemplateEnd(s, p + 2, 1)
         ELSE TemplateEnd(s, p + 1, 0)
    ELSE IF s[p] = "{" THEN TemplateEnd(s, p + 1, depth + 1)
    ELSE IF s[p] = "}" THEN TemplateEnd(s, p + 1, depth - 1)
    ELSE TemplateEnd(s, p + 1, depth)

(* C16: for every terminated template string the step appends exactly one *)
(* template-string token whose text is the source from the opening        *)
(* back-quote through the closing one, byte for byte; the closing         *)
(* back-quote is the first that is neither the byte after a backslash nor *)
(* inside a "${" span, and a span ends at the '}' that brings the brace   *)
(* count opened by "${" back to zero.                                     *)
C16_TemplateText ==
    [][(AtByte(BQ) /\ TemplateEnd(source, current + 2, 0) # 0) =>
         LET e == TemplateEnd(source, current + 2, 0) IN
         /\ pc' = "Tokenize"
         /\ current' = e
         /\ Len(tokens') = Len(tokens) + 1
         /\ SubSeq(tokens', 1, Len(tokens)) = tokens
         /\ tokens'[Len(tokens')].Type = "TOKEN_TEMPLATE_STRING"
         /\ tokens'[Len(tokens')].Value = SubSeq(source, current + 1, e)]_vars

\* nested braces and a back-quote inside the span and an escaped
\* back-quote after it did not end the literal
C16_Witness ==
    /\ pc = "Tokenized" /\ ret.err.msg = ""
    /\ source = <<BQ, "$", "{", "{", "}", BQ, "}", "\\", BQ, "a", BQ, "a">>
    /\ Len(ret.tokens) = 3
    /\ ret.tokens[1].Type = "TOKEN_TEMPLATE_STRING"
    /\ ret.tokens[1].Value = SubSeq(source, 1, 11)
    /\ ret.tokens[2].Type = "TOKEN_IDENT"

----------------------------------------------------------------------------
(* ConvertNumber called on a text directly: "0", a letter of base 2 or 8, *)
(* and bytes that are digits of the base, other digits or signs           *)

MaxConvertLen == 4

ConvertBytes == {"0", "1", "7", "8", "-", "+"}

\* 2^63 and 2^66 - 1, which do not fit 64 bits, and -2^63, which does
EdgeLiterals ==
    {<<"0", "o", "1">> \o Repeat("0", 21),
     <<"0", "O">> \o Repeat("7", 22),
     <<"0", "o", "-", "1">> \o Repeat("0", 21)}

TooLarge ==
    {<<"0", "o", "1">> \o Repeat("0", 21), <<"0", "O">> \o Repeat("7", 22)}

BasedTexts ==
    {<<"0", p>> \o d : p \in {"b", "B", "o", "O"},
                      d \in Texts(ConvertBytes, MaxConvertLen)}
        \cup EdgeLiterals

InitConvert ==
    /\ source = <<>>
    /\ tokens = <<>>
    /\ start = 0
    /\ current = 0
    /\ line = 1
    /\ column = 1
    /\ startColumn = 0
    /\ steps = 0
    /\ spans = <<>>
    /\ ret = NoRet
    /\ pc = "ConvertNumber"
    /\ mode = "call"
    /\ arg \in BasedTexts
    /\ conv = <<>>
    /\ compiler = FALSE
    /\ out = NoOut
    /\ nfiles = 0
    /\ opts = NoOpts
    /\ idx = 0
    /\ attempted = {}
    /\ written = {}
    /\ printed = {}
    /\ cfErr = ""
    /\ exit = -1
    /\ tmp = "none"
    /\ interp = NoInterp

\* ConvertNumber(arg)
ConvertValue ==
    /\ pc = "ConvertNumber"
    /\ conv' = <<ConvertNumber(arg)>>
    /\ pc' = "Converted"
    /\ UNCHANGED <<lexvars, ret, mode, arg, compiler, out, nfiles, opts, idx,
                   attempted, written, printed, cfErr, exit, tmp, interp>>

NextConvert == ConvertValue

SpecConvert == InitConvert /\ [][NextConvert]_vars

\* the digits of the base whose letter is the second byte of the literal
DigitsOfBase(v) ==
    IF v[2] \in {"b", "B"} THEN {"0", "1"}
    ELSE {"0", "1", "2", "3", "4", "5", "6", "7"}

\* read off the text: nothing after the prefix, or a byte after it that is
\* not a digit of the base
Malformed(v) ==
    \/ Len(v) = 2
    \/ \E k \in 3..Len(v) : v[k] \notin DigitsOfBase(v)

(* C17: for every binary or octal literal whose text after the prefix of  *)
(* two bytes is empty, holds a byte that is not a digit of the base (a    *)
(* sign too), or denotes a value above 2^63 - 1, ConvertNumber returns an *)
(* error that names the literal and no text; it never returns a negative  *)
(* number.                                                                *)
C17_BadLiteralIsError ==
    pc = "Converted" =>
        /\ (Malformed(arg) \/ arg \in TooLarge) =>
              /\ conv[1].err # ""
              /\ conv[1].lit = arg
              /\ conv[1].text = <<>>
        /\ conv[1].err = "" => conv[1].text[1] # "-"

----------------------------------------------------------------------------
(* Lines and columns *)

\* read off the text: the 1-based line of the byte at 0-based offset off
LineOf(s, off) == 1 + NewlinesBefore(s, off)

\* read off the text: the 1-based column of the byte at 0-based offset off,
\* 1 + the number of bytes between it and the newline before it (or the
\* start of the text)
ColumnOf(s, off) ==
    LET before == {k \in 1..off : s[k] = "\n"} IN
    IF before = {} THEN off + 1
    ELSE off + 1 - (CHOOSE k \in before : \A j \in before : j <= k)

(* C18: at the start of every scan step, and whenever a token was         *)
(* appended or an error returned, the line field is 1 + the number of     *)
(* newlines in source[0..current), also for newlines after a backslash    *)
(* in quoted and template strings and for newlines in interpolations,     *)
(* multiline strings and multiline comments.                              *)
C18_LineCounter ==
    pc # "panic" => line = LineOf(source, current)

(* C19: every token records the position of its first byte: its Line is  *)
(* the 1-based line of that byte and its Column is 1 + the number of      *)
(* bytes between that byte and the newline before it, also for tokens     *)
(* that span several lines and for tokens after a multi-line construct or *)
(* after a '[' and '=' run re-read as a plain bracket.                    *)
C19_TokenPosition ==
    \A i \in 1..Len(spans) :
        /\ tokens[i].Line = LineOf(source, spans[i].start)
        /\ tokens[i].Column = ColumnOf(source, spans[i].start)

----------------------------------------------------------------------------
(* The token sequence Tokenize returns *)

(* C20: on success the sequence Tokenize returns ends with exactly one    *)
(* end-of-input token and holds no other end-of-input, newline or error   *)
(* token; the other tokens are in strictly increasing order of the source *)
(* offsets they start at, each is the text of a span of the source that   *)
(* is not empty, and no two spans overlap.                                *)
C20_TokenSequence ==
    (pc = "Tokenized" /\ ret.err.msg = "") =>
        /\ Len(ret.tokens) = Len(spans) + 1
        /\ ret.tokens[Len(ret.tokens)].Type = "TOKEN_EOF"
        /\ \A i \in 1..Len(spans) :
              /\ ret.tokens[i].Type
                     \notin {"TOKEN_EOF", "TOKEN_NEWLINE", "TOKEN_ERROR"}
              /\ 0 <= spans[i].start
              /\ spans[i].start < spans[i].end
              /\ spans[i].end <= Len(source)
              /\ ret.tokens[i].Value =
                     Slice(source, spans[i].start, spans[i].end)
              /\ i > 1 => spans[i - 1].end <= spans[i].start

\* after a comment over two lines, "[=a" gave a bracket re-read from the
\* '[' and '=' run, the '=' and the identifier, in this order
C20_Witness ==
    /\ pc = "Tokenized" /\ ret.err.msg = ""
    /\ source = <<"-", "-", "[", "[", "\n", "]", "=", "]", "]", "[", "=", "a">>
    /\ Len(ret.tokens) = 4
    /\ ret.tokens[1].Type = "TOKEN_LBRACKET"
    /\ spans = <<[start |-> 9, end |-> 10], [start |-> 10, end |-> 11],
                 [start |-> 11, end |-> 12]>>

----------------------------------------------------------------------------
(* The driver: Compile, and the compile command (handleCompile with       *)
(* compileFile).  What the file system, the arguments and the compiler    *)
(* stage give is chosen when the code asks for it.                        *)

MaxFiles == 2

MaxCliLen == 2

CliAlphabet == {"a", "!", "\"", "\\"}

CliSources == Texts(CliAlphabet, MaxCliLen)

AllOpts ==
    [OutputFile : BOOLEAN, PrintOnly : BOOLEAN, Quiet : BOOLEAN,
     ToStdout : BOOLEAN]

\* what NewCompiler(tokens).Compile() may return: Lua text or an error
CompilerResults ==
    {[text |-> "lua", err |-> NoErr],
     [text |-> "", err |-> Errorf("compile error", 1, "", 0)]}

\* a process about to run a command on n files with options o
InitCommand(m, entry) ==
    /\ source = <<>>
    /\ tokens = <<>>
    /\ start = 0
    /\ current = 0
    /\ line = 1
    /\ column = 1
    /\ startColumn = 0
    /\ steps = 0
    /\ spans = <<>>
    /\ ret = NoRet
    /\ pc = entry
    /\ InitProcess(m)
    /\ nfiles \in 0..MaxFiles
    /\ opts \in AllOpts

\* fatal, or the os.Exit(1) of handleCompile and handleRun: the process
\* ends at once and no deferred call runs
Fatal ==
    /\ exit' = 1
    /\ pc' = "exited"

\* Compile(src) up to its call of Tokenize
CallCompile(src) ==
    /\ SetLexer(NewLexer(src))
    /\ steps' = 0
    /\ spans' = <<>>
    /\ ret' = NoRet
    /\ compiler' = FALSE
    /\ out' = NoOut
    /\ pc' = "Tokenize"

\* Compile with its test of Tokenize's error left out
CompileReturnsAnyway(r, stage) == [out |-> stage, compiler |-> TRUE]

\* Compile after Tokenize returned r: what Compile returns, the compiler
\* stage giving stage when it runs, and whether NewCompiler was called
CompileReturns(r, stage) ==
    IF r.err.msg # ""
    THEN [out |-> [text |-> "", err |-> r.err], compiler |-> FALSE]
    ELSE [out |-> stage, compiler |-> TRUE]

Compile ==
    /\ pc = "Tokenized"
    /\ mode \in {"compile", "run"}
    /\ \E stage \in CompilerResults :
          /\ out' = CompileReturns(ret, stage).out
          /\ compiler' = CompileReturns(ret, stage).compiler
    /\ pc' = "Compiled"
    /\ UNCHANGED <<lexvars, ret, mode, arg, conv, nfiles, opts, idx, attempted,
                   written, printed, cfErr, exit, tmp, interp>>

\* a run-time panic ends the process with status 2
Panic ==
    /\ pc = "panic"
    /\ mode \in {"compile", "run"}
    /\ exit' = 2
    /\ pc' = "exited"
    /\ UNCHANGED <<lexvars, ret, mode, arg, conv, compiler, out, nfiles, opts,
                   idx, attempted, written, printed, cfErr, tmp, interp>>

\* handleCompile up to its loop: no input file, or a bad pattern, is fatal
HandleCompile ==
    /\ pc = "handleCompile"
    /\ \E globOK \in BOOLEAN :
          IF nfiles = 0 \/ ~globOK
          THEN Fatal /\ UNCHANGED idx
          ELSE /\ idx' = 0
               /\ pc' = "loop"
               /\ UNCHANGED exit
    /\ UNCHANGED <<lexvars, ret, mode, arg, conv, compiler, out, nfiles, opts,
                   attempted, written, printed, cfErr, tmp, interp>>

\* the loop calls compileFile on the next file, or handleCompile and main
\* return
CompileLoop ==
    /\ pc = "loop"
    /\ IF idx < nfiles
       THEN /\ attempted' = attempted \cup {idx}
            /\ cfErr' = ""
            /\ pc' = "compileFile"
            /\ UNCHANGED exit
       ELSE /\ exit' = 0
            /\ pc' = "exited"
            /\ UNCHANGED <<attempted, cfErr>>
    /\ UNCHANGED <<lexvars, ret, mode, arg, conv, compiler, out, nfiles, opts,
                   idx, written, printed, tmp, interp>>

\* compileFile up to its call of Compile
CompileFileRead ==
    /\ pc = "compileFile"
    /\ \E suffix \in BOOLEAN, readOK \in BOOLEAN, src \in CliSources :
          IF ~suffix
          THEN /\ cfErr' = "is not a .tkm file"
               /\ pc' = "compileFileReturned"
               /\ UNCHANGED <<lexvars, ret, compiler, out>>
          ELSE IF ~readOK
          THEN /\ cfErr' = "cannot read"
               /\ pc' = "compileFileReturned"
               /\ UNCHANGED <<lexvars, ret, compiler, out>>
          ELSE /\ CallCompile(src)
               /\ UNCHANGED cfErr
    /\ UNCHANGED <<mode, arg, conv, nfiles, opts, idx, attempted, written,
                   printed, exit, tmp, interp>>

\* compileFile after Compile returned
CompileFileOutput ==
    /\ pc = "Compiled"
    /\ mode = "compile"
    /\ IF out.err.msg # ""
       THEN /\ cfErr' = "compile"
            /\ UNCHANGED <<written, printed>>
       ELSE IF opts.PrintOnly \/ opts.ToStdout
       THEN /\ printed' = printed \cup {idx}
            /\ cfErr' = ""
            /\ UNCHANGED written
       ELSE \E writeOK \in BOOLEAN, touched \in BOOLEAN :
               /\ written' = IF writeOK \/ touched
                             THEN written \cup {idx} ELSE written
               /\ cfErr' = IF writeOK THEN "" ELSE "cannot write"
               /\ printed' = IF writeOK /\ ~opts.Quiet
                             THEN printed \cup {idx} ELSE printed
    /\ pc' = "compileFileReturned"
    /\ UNCHANGED <<lexvars, ret, mode, arg, conv, compiler, out, nfiles, opts,
                   idx, attempted, exit, tmp, interp>>

\* the loop going on to the next file after an error
CompileFileReturnedGoOn ==
    /\ pc = "compileFileReturned"
    /\ idx' = idx + 1
    /\ pc' = "loop"
    /\ UNCHANGED <<lexvars, ret, mode, arg, conv, compiler, out, nfiles, opts,
                   attempted, written, printed, cfErr, exit, tmp, interp>>

\* the loop after compileFile returned: an error is printed and the
\* process exits with status 1
CompileFileReturned ==
    /\ pc = "compileFileReturned"
    /\ IF cfErr # ""
       THEN Fatal /\ UNCHANGED idx
       ELSE /\ idx' = idx + 1
            /\ pc' = "loop"
            /\ UNCHANGED exit
    /\ UNCHANGED <<lexvars, ret, mode, arg, conv, compiler, out, nfiles, opts,
                   attempted, written, printed, cfErr, tmp, interp>>

InitCompile == InitCommand("compile", "handleCompile")

NextCompile ==
    \/ HandleCompile
    \/ CompileLoop
    \/ CompileFileRead
    \/ ScanToken
    \/ TokenizeEnd
    \/ Compile
    \/ Panic
    \/ CompileFileOutput
    \/ CompileFileReturned

SpecCompile == InitCompile /\ [][NextCompile]_vars

\* compileFile has returned for the file idx (the process may have ended)
FileDone == mode = "compile" /\ pc \in {"compileFileReturned", "exited"}

(* C2: compilation of one input is fail-fast with no partial output: when *)
(* lexing fails, Tokenize returns no tokens, Compile returns the empty    *)
(* text and that error without constructing the compiler stage, and       *)
(* compileFile returns the error before it prints or writes anything: no  *)
(* output file is created or modified for an input whose compilation      *)
(* failed.                                                                *)
C2_FailFast ==
    /\ (mode = "compile" /\ ret.err.msg # "") =>
          /\ ret.tokens = <<>>
          /\ pc \in {"Compiled", "compileFileReturned", "exited"} =>
                (out = [text |-> "", err |-> ret.err] /\ ~compiler)
    /\ (FileDone /\ out.err.msg # "") =>
          (cfErr # "" /\ idx \notin written /\ idx \notin printed)

\* the first file was written, the second failed in the lexer
C2_Witness ==
    /\ mode = "compile" /\ pc = "exited" /\ exit = 1
    /\ ret.err.msg # "" /\ out.err = ret.err
    /\ idx = 1 /\ written = {0} /\ printed = {0}

(* C4, as stated: an error in one file does not block the remaining       *)
(* files; every file of the expanded list is attempted before the process *)
(* exits.                                                                 *)
C4_LaterFilesAttempted ==
    (mode = "compile" /\ pc = "exited" /\ cfErr # "")
        => attempted = 0 .. nfiles - 1

(* C4, amended: a compile or I/O error in one file ends the run: the      *)
(* process exits with status 1 right after that file, the files           *)
(* compileFile was called on are exactly those up to and including it,    *)
(* and no later file is attempted.                                        *)
C4_ErrorEndsTheRun ==
    (mode = "compile" /\ pc = "exited" /\ cfErr # "")
        => (exit = 1 /\ idx < nfiles /\ attempted = 0 .. idx)

\* the first of two files failed and the second was never attempted
C4_Witness ==
    /\ mode = "compile" /\ pc = "exited" /\ cfErr # ""
    /\ nfiles = 2 /\ idx = 0 /\ attempted = {0}

----------------------------------------------------------------------------
(* The run command (handleRun with execCommand and osExecCmd.run) *)

MaxStatus == 3

interpreters == <<"lua", "luajit", "lua5.4", "lua5.3", "lua5.2", "lua5.1">>

\* handleRun up to its call of Compile
HandleRun ==
    /\ pc = "handleRun"
    /\ \E readOK \in BOOLEAN, src \in CliSources :
          IF nfiles = 0 \/ nfiles > 1 \/ ~readOK
          THEN Fatal /\ UNCHANGED <<lexvars, ret, compiler, out>>
          ELSE CallCompile(src) /\ UNCHANGED exit
    /\ UNCHANGED <<mode, arg, conv, nfiles, opts, idx, attempted, written,
                   printed, cfErr, tmp, interp>>

\* handleRun after Compile returned: os.CreateTemp, and the deferred
\* os.Remove that runs when handleRun returns
HandleRunCreateTemp ==
    /\ pc = "Compiled"
    /\ mode = "run"
    /\ \E created \in BOOLEAN :
          IF out.err.msg # "" \/ ~created
          THEN Fatal /\ UNCHANGED tmp
          ELSE /\ tmp' = "exists"
               /\ pc' = "writeTemp"
               /\ UNCHANGED exit
    /\ UNCHANGED <<lexvars, ret, mode, arg, conv, compiler, out, nfiles, opts,
                   idx, attempted, written, printed, cfErr, interp>>

\* tmpFile.WriteString, Close and the "compiled" line
HandleRunWriteTemp ==
    /\ pc = "writeTemp"
    /\ \E wrote \in BOOLEAN :
          IF ~wrote
          THEN Fatal /\ UNCHANGED printed
          ELSE /\ printed' = IF opts.Quiet THEN printed ELSE printed \cup {0}
               /\ pc' = "lookup"
               /\ UNCHANGED exit
    /\ UNCHANGED <<lexvars, ret, mode, arg, conv, compiler, out, nfiles, opts,
                   idx, attempted, written, cfErr, tmp, interp>>

\* the first interpreter of the list that execLookPath finds, "" if none
FirstOnPath(onPath) ==
    LET found == {k \in 1..Len(interpreters) : interpreters[k] \in onPath}
    IN IF found = {} THEN ""
       ELSE interpreters[CHOOSE k \in found : \A j \in found : k <= j]

HandleRunLookup ==
    /\ pc = "lookup"
    /\ \E onPath \in SUBSET {interpreters[k] : k \in 1..Len(interpreters)} :
          IF FirstOnPath(onPath) = ""
          THEN Fatal /\ UNCHANGED interp
          ELSE /\ interp' = [ran |-> FALSE, status |-> 0,
                             name |-> FirstOnPath(onPath)]
               /\ pc' = "exec"
               /\ UNCHANGED exit
    /\ UNCHANGED <<lexvars, ret, mode, arg, conv, compiler, out, nfiles, opts,
                   idx, attempted, written, printed, cfErr, tmp>>

\* osExecCmd.run that reports every process that ended as a success
runIgnoringStatus(started, waited, status) == ~started \/ ~waited

\* osExecCmd.run returns an error (TRUE) when the process cannot be
\* started or waited for, and when it exits with a status other than 0
run(started, waited, status) == ~started \/ ~waited \/ status # 0

\* cmd.Run() and the end of handleRun: an error is os.Exit(1); otherwise
\* handleRun returns, its deferred os.Remove runs, and main returns
HandleRunExec ==
    /\ pc = "exec"
    /\ \E started \in BOOLEAN, waited \in BOOLEAN, status \in 0..MaxStatus :
          /\ (~(started /\ waited)) => status = 0
          /\ interp' = [interp EXCEPT !.ran = started /\ waited,
                                      !.status = status]
          /\ IF run(started, waited, status)
             THEN /\ exit' = 1
                  /\ UNCHANGED tmp
             ELSE /\ exit' = 0
                  /\ tmp' = "removed"
    /\ pc' = "exited"
    /\ UNCHANGED <<lexvars, ret, mode, arg, conv, compiler, out, nfiles, opts,
                   idx, attempted, written, printed, cfErr>>

InitRun == InitCommand("run", "handleRun")

NextRun ==
    \/ HandleRun
    \/ ScanToken
    \/ TokenizeEnd
    \/ Compile
    \/ Panic
    \/ HandleRunCreateTemp
    \/ HandleRunWriteTemp
    \/ HandleRunLookup
    \/ HandleRunExec

SpecRun == InitRun /\ [][NextRun]_vars

(* C5, as stated: in run mode the exit status of the process equals the   *)
(* exit status s of the Lua interpreter it executed, for s = 0 and for    *)
(* every s other than 0.                                                  *)
C5_ExitStatusForwarded ==
    (mode = "run" /\ pc = "exited" /\ interp.ran) => exit = interp.status

(* C5, amended: in run mode the process exits with status 0 when the      *)
(* interpreter it executed exited with status 0, and with status 1 when   *)
(* the interpreter exited with any other status.                          *)
C5_ExitStatusIsZeroOrOne ==
    (mode = "run" /\ pc = "exited" /\ interp.ran)
        => exit = (IF interp.status = 0 THEN 0 ELSE 1)

\* the interpreter exited with 2 and the process with 1
C5_Witness ==
    /\ mode = "run" /\ pc = "exited"
    /\ interp.ran /\ interp.status = 2 /\ exit = 1

(* C21: in run mode, once the temporary Lua file has been created it is   *)
(* removed before the process exits, on every path: when writing it       *)
(* fails, when no interpreter is found on PATH, when the interpreter      *)
(* fails and when it succeeds.                                            *)
C21_TempFileRemoved ==
    (mode = "run" /\ pc = "exited") => tmp # "exists"

====
